---------------------------- MODULE Spec2Model ----------------------------
(***************************************************************************)
(* Model of .github/scripts/parse_review_comments.py: the review-comment   *)
(* extractor, the diff-position mapper, the payload builder, the fallback  *)
(* chunker and main.  Text is a sequence of one-character strings.         *)
(***************************************************************************)
EXTENDS Integers, Sequences, FiniteSets, TLC

VARIABLES
    \* get_line_position_in_diff
    file_exists,       \* os.path.exists(file_path)
    returncode,        \* result.returncode of the git diff call
    raises,            \* the subprocess call raises inside the try block
    stdout,            \* result.stdout
    line_number,       \* the target line
    ret,               \* what get_line_position_in_diff returned
    \* the review text
    review_exists,     \* review_file.exists()
    review_parts,      \* what each line of the review text was written from
    review_content,    \* the review text
    chunk_size,        \* chunk_size of create_fallback_comments
    line_comments,     \* what extract_line_comments returned
    fallback_comments, \* what create_fallback_comments returned
    \* create_review_payload
    repo_files,        \* the working tree and its diffs: path -> file state
    comments,          \* the comments argument
    commit_sha,        \* the commit_sha argument
    ci,                \* index of the next comment of the for loop
    valid_comments,
    skipped_comments,
    lookups,           \* calls of get_line_position_in_diff made so far
    payload,           \* what create_review_payload returned
    \* main
    written_payload,   \* review_payload.json
    written_fallback,  \* review_comment_<i>.json, in order
    total_chunks,      \* total_chunks.txt
    pc                 \* control position of the run

diffVars == <<file_exists, returncode, raises, stdout, line_number, ret>>
textVars == <<review_exists, review_parts, review_content, chunk_size,
              line_comments, fallback_comments>>
payloadVars == <<repo_files, comments, commit_sha, ci, valid_comments,
                 skipped_comments, lookups, payload>>
mainVars == <<written_payload, written_fallback, total_chunks>>

vars == <<diffVars, textVars, payloadVars, mainVars, pc>>

----------------------------------------------------------------------------
\* Bounds of the model.
MaxDiffLen == 4
MaxTarget == 4
MaxLineNo == 11
MaxReviewLines == 3
MaxTextLen == 5
MaxChunkSize == 3
MaxComments == 2

\* chunk_size: int = 1000
DefaultChunkSize == 1000

----------------------------------------------------------------------------
\* Characters and strings.

NL == "\n"
SpaceChars == {" ", "\t", NL}
DigitChars == {"0", "1", "2", "3", "4", "5", "6", "7", "8", "9"}

\* str.isspace of one character (what \s and str.strip treat as whitespace)
IsSpace(c) == c \in SpaceChars

\* \d of one character
IsDigit(c) == c \in DigitChars

\* the value int() gives one decimal digit
DigitVal(c) ==
    CASE c = "0" -> 0 [] c = "1" -> 1 [] c = "2" -> 2 [] c = "3" -> 3
      [] c = "4" -> 4 [] c = "5" -> 5 [] c = "6" -> 6 [] c = "7" -> 7
      [] c = "8" -> 8 [] c = "9" -> 9

\* int(s) of a run of decimal digits
RECURSIVE ParseInt(_)
ParseInt(s) ==
    IF s = <<>> THEN 0
    ELSE 10 * ParseInt(SubSeq(s, 1, Len(s) - 1)) + DigitVal(s[Len(s)])

\* s.startswith(p)
StartsWith(s, p) == Len(s) >= Len(p) /\ SubSeq(s, 1, Len(p)) = p

\* s.split('\n'), scanning from index i with the current piece cur
RECURSIVE SplitFrom(_, _, _)
SplitFrom(s, i, cur) ==
    IF i > Len(s) THEN <<cur>>
    ELSE IF s[i] = NL THEN <<cur>> \o SplitFrom(s, i + 1, <<>>)
    ELSE SplitFrom(s, i + 1, Append(cur, s[i]))

Split(s) == SplitFrom(s, 1, <<>>)

\* s.strip()
RECURSIVE LStrip(_)
LStrip(s) == IF s # <<>> /\ IsSpace(s[1]) THEN LStrip(Tail(s)) ELSE s

RECURSIVE RStrip(_)
RStrip(s) ==
    IF s # <<>> /\ IsSpace(s[Len(s)]) THEN RStrip(SubSeq(s, 1, Len(s) - 1)) ELSE s

Strip(s) == RStrip(LStrip(s))

\* '\n'.join(lines)
RECURSIVE JoinLines(_)
JoinLines(ls) ==
    IF ls = <<>> THEN <<>>
    ELSE IF Len(ls) = 1 THEN ls[1]
    ELSE ls[1] \o <<NL>> \o JoinLines(Tail(ls))

\* all sequences over S of length at most n
BoundedSeq(S, n) == UNION {[1..k -> S] : k \in 0..n}

----------------------------------------------------------------------------
\* get_line_position_in_diff

NotFound == [found |-> FALSE, position |-> 0]
Found(p) == [found |-> TRUE, position |-> p]

\* the end of the run of digits of s that starts at index i (i - 1 if none)
RECURSIVE DigitsEnd(_, _)
DigitsEnd(s, i) ==
    IF i <= Len(s) /\ IsDigit(s[i]) THEN DigitsEnd(s, i + 1) ELSE i - 1

\* re.search(r'\+(\d+)', diff_line): the leftmost '+' followed by a digit,
\* group 1 being the whole run of digits after it
RECURSIVE SearchPlusDigits(_, _)
SearchPlusDigits(s, i) ==
    IF i >= Len(s) THEN [matched |-> FALSE, value |-> 0]
    ELSE IF s[i] = "+" /\ IsDigit(s[i + 1])
         THEN [matched |-> TRUE,
               value |-> ParseInt(SubSeq(s, i + 1, DigitsEnd(s, i + 1)))]
         ELSE SearchPlusDigits(s, i + 1)

\* the loop state before the first diff line
ScanStart == [position |-> 0, current_new_line |-> 0, in_hunk |-> FALSE,
              result |-> NotFound]

\* faulty variant of DiffLineStep: a removed line does not advance position
DiffLineStepSkipRemoved(diff_line, st, target) ==
    IF StartsWith(diff_line, <<"@", "@">>)
    THEN LET match == SearchPlusDigits(diff_line, 1) IN
         [st EXCEPT !.position = @ + 1,
                    !.current_new_line = IF match.matched THEN match.value - 1 ELSE @,
                    !.in_hunk = @ \/ match.matched]
    ELSE IF st.in_hunk
    THEN IF StartsWith(diff_line, <<"+">>) \/ StartsWith(diff_line, <<" ">>)
         THEN [st EXCEPT !.position = @ + 1,
                         !.current_new_line = @ + 1,
                         !.result = IF st.current_new_line + 1 = target
                                    THEN Found(st.position + 1) ELSE @]
         ELSE st
    ELSE st

\* faulty variant of DiffLineStep: a hunk header does not advance position
DiffLineStepSkipHeader(diff_line, st, target) ==
    IF StartsWith(diff_line, <<"@", "@">>)
    THEN LET match == SearchPlusDigits(diff_line, 1) IN
         [st EXCEPT !.current_new_line = IF match.matched THEN match.value - 1 ELSE @,
                    !.in_hunk = @ \/ match.matched]
    ELSE IF st.in_hunk
    THEN IF StartsWith(diff_line, <<"+">>) \/ StartsWith(diff_line, <<" ">>)
         THEN [st EXCEPT !.position = @ + 1,
                         !.current_new_line = @ + 1,
                         !.result = IF st.current_new_line + 1 = target
                                    THEN Found(st.position + 1) ELSE @]
         ELSE IF StartsWith(diff_line, <<"-">>)
         THEN [st EXCEPT !.position = @ + 1]
         ELSE st
    ELSE st

\* one iteration of the for loop over diff_lines; result is set when the
\* iteration returns
DiffLineStep(diff_line, st, target) ==
    IF StartsWith(diff_line, <<"@", "@">>)
    THEN LET match == SearchPlusDigits(diff_line, 1) IN
         [st EXCEPT !.position = @ + 1,
                    !.current_new_line = IF match.matched THEN match.value - 1 ELSE @,
                    !.in_hunk = @ \/ match.matched]
    ELSE IF st.in_hunk
    THEN IF StartsWith(diff_line, <<"+">>) \/ StartsWith(diff_line, <<" ">>)
         THEN [st EXCEPT !.position = @ + 1,
                         !.current_new_line = @ + 1,
                         !.result = IF st.current_new_line + 1 = target
                                    THEN Found(st.position + 1) ELSE @]
         ELSE IF StartsWith(diff_line, <<"-">>)
         THEN [st EXCEPT !.position = @ + 1]
         ELSE st
    ELSE st

\* the for loop over diff_lines from line i on, and the return after it
RECURSIVE ScanDiff(_, _, _, _)
ScanDiff(diff_lines, i, st, target) ==
    IF i > Len(diff_lines) THEN NotFound
    ELSE LET nxt == DiffLineStep(diff_lines[i], st, target) IN
         IF nxt.result.found THEN nxt.result
         ELSE ScanDiff(diff_lines, i + 1, nxt, target)

\* faulty variant of GetLinePositionInDiff: the return code of git diff is not checked
GetLinePositionInDiffAnyRc(exists, rc, exc, out, target) ==
    IF ~exists THEN NotFound
    ELSE IF exc THEN NotFound
    ELSE IF Strip(out) = <<>> THEN NotFound
    ELSE ScanDiff(Split(out), 1, ScanStart, target)

\* the whole function: the guards, then the scan; an exception raised in the
\* try block is caught and turned into None
GetLinePositionInDiff(exists, rc, exc, out, target) ==
    IF ~exists THEN NotFound
    ELSE IF exc THEN NotFound
    ELSE IF rc # 0 \/ Strip(out) = <<>> THEN NotFound
    ELSE ScanDiff(Split(out), 1, ScanStart, target)

----------------------------------------------------------------------------
\* normalize_path and extract_line_comments

LetterChars ==
    {"a", "b", "c", "d", "e", "f", "g", "h", "i", "j", "k", "l", "m", "n",
     "o", "p", "q", "r", "s", "t", "u", "v", "w", "x", "y", "z",
     "A", "B", "C", "D", "E", "F", "G", "H", "I", "J", "K", "L", "M", "N",
     "O", "P", "Q", "R", "S", "T", "U", "V", "W", "X", "Y", "Z"}

\* [a-zA-Z0-9] of one character
IsAlnum(c) == c \in LetterChars \cup DigitChars

\* case folding of re.IGNORECASE for the letters of the keyword "line"
Lower(c) ==
    CASE c = "L" -> "l" [] c = "I" -> "i" [] c = "N" -> "n" [] c = "E" -> "e"
      [] OTHER -> c

\* the first index from i on that holds no whitespace (\s* taken greedily)
RECURSIVE SkipSpace(_, _)
SkipSpace(s, i) ==
    IF i <= Len(s) /\ IsSpace(s[i]) THEN SkipSpace(s, i + 1) ELSE i

\* faulty variant of NormalizePath: the a/ or b/ prefix is kept
NormalizePathKeepAB(file_path) ==
    LET path == Strip([i \in 1..Len(file_path) |->
                          IF file_path[i] = "\\" THEN "/" ELSE file_path[i]])
    IN IF StartsWith(path, <<".", "/">>) THEN SubSeq(path, 3, Len(path)) ELSE path

\* normalize_path
NormalizePath(file_path) ==
    LET path == Strip([i \in 1..Len(file_path) |->
                          IF file_path[i] = "\\" THEN "/" ELSE file_path[i]])
        path1 == IF StartsWith(path, <<".", "/">>)
                 THEN SubSeq(path, 3, Len(path)) ELSE path
    IN IF Len(path1) >= 2 /\ path1[1] \in {"a", "b"} /\ path1[2] = "/"
       THEN SubSeq(path1, 3, Len(path1)) ELSE path1

\* s is matched in full by the optional list prefix \s*[-*]?\s*\d*\.?\s*
InListPrefix(s) ==
    LET a == SkipSpace(s, 1)
        b == IF a <= Len(s) /\ s[a] \in {"-", "*"} THEN a + 1 ELSE a
        c == SkipSpace(s, b)
        d == DigitsEnd(s, c) + 1
        e == IF d <= Len(s) /\ s[d] = "." THEN d + 1 ELSE d
    IN SkipSpace(s, e) = Len(s) + 1

\* the end of the run of characters of [^:\s] that starts at i (i - 1 if none)
RECURSIVE TokenEnd(_, _)
TokenEnd(s, i) ==
    IF i <= Len(s) /\ s[i] # ":" /\ ~IsSpace(s[i]) THEN TokenEnd(s, i + 1) ELSE i - 1

\* t is matched in full by [^:\s]+\.[a-zA-Z0-9]+
IsPathToken(t) ==
    \E k \in 2..(Len(t) - 1) :
        t[k] = "." /\ \A m \in (k + 1)..Len(t) : IsAlnum(t[m])

NoMatch == [matched |-> FALSE, file_path |-> <<>>, line_num |-> <<>>,
            description |-> <<>>]

\* the keyword "line" at index k, whatever its case
KeywordAt(s, k) ==
    /\ k + 3 <= Len(s)
    /\ <<Lower(s[k]), Lower(s[k + 1]), Lower(s[k + 2]), Lower(s[k + 3])>>
           = <<"l", "i", "n", "e">>

\* (\d+)\s*:\s*(.+)$ from index k on
NumberTail(s, k) ==
    LET e == DigitsEnd(s, k)
        c == SkipSpace(s, e + 1)
        d == SkipSpace(s, c + 1)
    IN IF e >= k /\ c <= Len(s) /\ s[c] = ":" /\ d <= Len(s)
       THEN [matched |-> TRUE, file_path |-> <<>>, line_num |-> SubSeq(s, k, e),
             description |-> SubSeq(s, d, Len(s))]
       ELSE NoMatch

\* what follows the path in patterns 1 to 3, from index j on
PatternTail(n, s, j) ==
    LET c == SkipSpace(s, j) IN
    CASE n = 1 ->   \* \s*:\s*(\d+)\s*:\s*(.+)$
           IF c <= Len(s) /\ s[c] = ":"
           THEN NumberTail(s, SkipSpace(s, c + 1)) ELSE NoMatch
      [] n = 2 ->   \* \s+line\s+(\d+)\s*:\s*(.+)$
           IF c > j /\ KeywordAt(s, c) /\ SkipSpace(s, c + 4) > c + 4
           THEN NumberTail(s, SkipSpace(s, c + 4)) ELSE NoMatch
      [] n = 3 ->   \* \s*:\s*line\s+(\d+)\s*:\s*(.+)$
           LET w == SkipSpace(s, c + 1) IN
           IF c <= Len(s) /\ s[c] = ":" /\ KeywordAt(s, w)
              /\ SkipSpace(s, w + 4) > w + 4
           THEN NumberTail(s, SkipSpace(s, w + 4)) ELSE NoMatch

\* patterns 1 to 3 with the list prefix ending at index i
MatchAfterPrefix(n, s, i) ==
    LET j == TokenEnd(s, i + 1)
        tok == SubSeq(s, i + 1, j)
        tail == PatternTail(n, s, j + 1)
    IN IF j >= i + 1 /\ IsPathToken(tok) /\ tail.matched
       THEN [tail EXCEPT !.file_path = tok] ELSE NoMatch

\* pattern 4: ^\*\*([^:\s]+\.[a-zA-Z0-9]+):(\d+)\*\*:\s*(.+)$
MatchBold(s) ==
    LET j == TokenEnd(s, 3)
        tok == SubSeq(s, 3, j)
        e == DigitsEnd(s, j + 2)
        d == SkipSpace(s, e + 4)
    IN IF /\ StartsWith(s, <<"*", "*">>)
          /\ j >= 3 /\ IsPathToken(tok)
          /\ j + 1 <= Len(s) /\ s[j + 1] = ":"
          /\ e >= j + 2
          /\ e + 3 <= Len(s) /\ SubSeq(s, e + 1, e + 3) = <<"*", "*", ":">>
          /\ d <= Len(s)
       THEN [matched |-> TRUE, file_path |-> tok,
             line_num |-> SubSeq(s, j + 2, e),
             description |-> SubSeq(s, d, Len(s))]
       ELSE NoMatch

\* re.match(patterns[n], line, re.IGNORECASE): the greedy list prefix gives
\* way one step at a time, so the longest prefix the rest can follow wins
MatchPattern(n, s) ==
    IF n = 4 THEN MatchBold(s)
    ELSE LET ends == {i \in 0..Len(s) :
                         /\ InListPrefix(SubSeq(s, 1, i))
                         /\ MatchAfterPrefix(n, s, i).matched}
         IN IF ends = {} THEN NoMatch
            ELSE MatchAfterPrefix(n, s, CHOOSE i \in ends : \A k \in ends : k <= i)

\* the for loop over patterns: the first pattern that matches, then break
MatchLine(s) ==
    IF MatchPattern(1, s).matched THEN MatchPattern(1, s)
    ELSE IF MatchPattern(2, s).matched THEN MatchPattern(2, s)
    ELSE IF MatchPattern(3, s).matched THEN MatchPattern(3, s)
    ELSE MatchPattern(4, s)

\* the fixed text every comment body starts with; its first character, the
\* robot emoji, is written by name
ReviewMarker ==
    <<"robot", " ", "*", "*", "A", "m", "p", "c", "o", "d", "e", " ",
      "R", "e", "v", "i", "e", "w", ":", "*", "*", " ">>

\* the record appended for a match
CommentOf(m) ==
    [path |-> NormalizePath(m.file_path),
     line |-> ParseInt(m.line_num),
     side |-> "RIGHT",
     body |-> ReviewMarker \o Strip(m.description)]

\* faulty variant of ExtractFrom: a new record is put in front of the list
RECURSIVE ExtractFromPrepend(_, _)
ExtractFromPrepend(lines, i) ==
    IF i > Len(lines) THEN <<>>
    ELSE LET line == Strip(lines[i])
             m == MatchLine(line)
         IN ExtractFromPrepend(lines, i + 1)
                \o (IF line # <<>> /\ m.matched THEN <<CommentOf(m)>> ELSE <<>>)

\* the for loop over lines, from line i on
RECURSIVE ExtractFrom(_, _)
ExtractFrom(lines, i) ==
    IF i > Len(lines) THEN <<>>
    ELSE LET line == Strip(lines[i])
             m == MatchLine(line)
         IN (IF line # <<>> /\ m.matched THEN <<CommentOf(m)>> ELSE <<>>)
                \o ExtractFrom(lines, i + 1)

\* extract_line_comments
ExtractLineComments(content) == ExtractFrom(Split(content), 1)

----------------------------------------------------------------------------
\* create_fallback_comments

\* faulty variant of ChunkLoop: the line that closes a chunk is dropped
RECURSIVE ChunkLoopDropLine(_, _, _, _, _)
ChunkLoopDropLine(lines, i, chunks, current_chunk, size) ==
    IF i > Len(lines)
    THEN IF Strip(current_chunk) # <<>>
         THEN Append(chunks, Strip(current_chunk)) ELSE chunks
    ELSE LET line == lines[i] IN
         IF Len(current_chunk) + Len(line) > size /\ current_chunk # <<>>
         THEN ChunkLoopDropLine(lines, i + 1, Append(chunks, Strip(current_chunk)),
                                <<>>, size)
         ELSE ChunkLoopDropLine(lines, i + 1, chunks,
                                (IF current_chunk # <<>>
                                 THEN current_chunk \o <<NL>> ELSE current_chunk)
                                    \o line, size)

\* the for loop that builds chunks, from line i on, and the flush after it
RECURSIVE ChunkLoop(_, _, _, _, _)
ChunkLoop(lines, i, chunks, current_chunk, size) ==
    IF i > Len(lines)
    THEN IF Strip(current_chunk) # <<>>
         THEN Append(chunks, Strip(current_chunk)) ELSE chunks
    ELSE LET line == lines[i] IN
         IF Len(current_chunk) + Len(line) > size /\ current_chunk # <<>>
         THEN ChunkLoop(lines, i + 1, Append(chunks, Strip(current_chunk)),
                        line, size)
         ELSE ChunkLoop(lines, i + 1, chunks,
                        (IF current_chunk # <<>>
                         THEN current_chunk \o <<NL>> ELSE current_chunk)
                            \o line, size)

\* create_fallback_comments: one record per chunk; body stands for the
\* formatted text, which holds the part numbering (part 0: no numbering)
\* and the chunk
CreateFallbackComments(content, size) ==
    LET chunks == ChunkLoop(Split(content), 1, <<>>, <<>>, size) IN
    [i \in 1..Len(chunks) |->
        [body |-> [part |-> IF Len(chunks) > 1 THEN i ELSE 0,
                   total |-> Len(chunks),
                   chunk |-> chunks[i]],
         event |-> "COMMENT"]]

----------------------------------------------------------------------------
\* create_review_payload

\* None, as the value of an environment variable that is not set
PyNone == "None"

\* not commit_sha
Falsy(sha) == sha = PyNone \/ sha = ""

\* the dict {}: a payload is a dict, modelled with the set of its keys
EmptyPayload == [keys |-> {}, body |-> 0, event |-> "", comments |-> <<>>,
                 commit_id |-> ""]

\* get_line_position_in_diff(path, line, commit_sha) in the working tree
\* repo; a path the tree does not hold does not exist
LookupIn(repo, path, line) ==
    IF path \in DOMAIN repo
    THEN GetLinePositionInDiff(repo[path].file_exists, repo[path].returncode,
                               repo[path].raises, repo[path].stdout, line)
    ELSE GetLinePositionInDiff(FALSE, 0, FALSE, <<>>, line)

\* the positioned comment built from a comment and its position
ValidComment(comment, position) ==
    [path |-> comment.path, position |-> position, body |-> comment.body]

\* faulty variant of BuildPayload: the bodies are not validated
BuildPayloadUnchecked(valid, sha) ==
    [keys |-> {"body", "event", "comments", "commit_id"},
     body |-> Len(valid), event |-> "COMMENT", comments |-> valid,
     commit_id |-> sha]

\* the payload returned for a non-empty valid_comments: {} when a body is
\* blank; body stands for the summary text, which holds the issue count
BuildPayload(valid, sha) ==
    IF \E k \in 1..Len(valid) : Strip(valid[k].body) = <<>>
    THEN EmptyPayload
    ELSE [keys |-> {"body", "event", "comments", "commit_id"},
          body |-> Len(valid), event |-> "COMMENT", comments |-> valid,
          commit_id |-> sha]

----------------------------------------------------------------------------
\* Inputs of get_line_position_in_diff: the lines git diff can print.

HdrA == <<"@", "@", " ", "-", "1", ",", "2", " ", "+", "1", ",", "3", " ", "@", "@">>
HdrB == <<"@", "@", " ", "-", "2", " ", "+", "3", " ", "@", "@">>
HdrBad == <<"@", "@", " ", "x">>
AddLine == <<"+", "a">>
CtxLine == <<" ", "a">>
DelLine == <<"-", "a">>
NoNewline == <<"\\", " ", "N">>
FileHdr == <<"+", "+", "+", " ", "b">>

DiffLineCatalogue ==
    {HdrA, HdrB, HdrBad, AddLine, CtxLine, DelLine, NoNewline}

\* a diff as git prints it, the +++ line of the file header before the hunk
WholeDiff == <<FileHdr, HdrA, CtxLine, DelLine, AddLine, NoNewline>>

\* the diff of the worked example: one header, 2 context lines, 3 added lines
ExampleHdr ==
    <<"@", "@", " ", "-", "1", "0", ",", "5", " ", "+", "1", "0", ",", "7", " ", "@", "@">>
ExampleDiff == <<ExampleHdr, CtxLine, CtxLine, AddLine, AddLine, AddLine>>
ExampleTargets == {9, 10, 11, 12, 13, 14, 15}

\* git prints every line with a newline after it
GitOutput(ls) == IF ls = <<>> THEN <<>> ELSE JoinLines(ls) \o <<NL>>

IdleDiff ==
    /\ file_exists = FALSE /\ returncode = 0 /\ raises = FALSE
    /\ stdout = <<>> /\ line_number = 0 /\ ret = NotFound

IdleText ==
    /\ review_exists = FALSE /\ review_parts = <<>> /\ review_content = <<>>
    /\ chunk_size = DefaultChunkSize
    /\ line_comments = <<>> /\ fallback_comments = <<>>

IdlePayload ==
    /\ repo_files = <<>> /\ comments = <<>> /\ commit_sha = PyNone /\ ci = 1
    /\ valid_comments = <<>> /\ skipped_comments = <<>> /\ lookups = 0
    /\ payload = EmptyPayload

IdleMain ==
    /\ written_payload = <<>> /\ written_fallback = <<>> /\ total_chunks = <<>>

InitDiff ==
    /\ pc = "diff_start"
    /\ IdleText /\ IdlePayload /\ IdleMain
    /\ ret = NotFound
    /\ \/ /\ file_exists = TRUE /\ returncode = 0 /\ raises = FALSE
          /\ \E ls \in BoundedSeq(DiffLineCatalogue, MaxDiffLen) : stdout = GitOutput(ls)
          /\ line_number \in 0..MaxTarget
       \/ /\ file_exists = TRUE /\ returncode = 0 /\ raises = FALSE
          /\ stdout = GitOutput(ExampleDiff)
          /\ line_number \in ExampleTargets
       \/ /\ file_exists \in BOOLEAN /\ returncode \in {0, 1} /\ raises \in BOOLEAN
          /\ stdout \in {GitOutput(WholeDiff), GitOutput(<<>>), <<NL>>}
          /\ line_number \in 0..MaxTarget

\* one call of get_line_position_in_diff
CallGetLinePosition ==
    /\ pc = "diff_start"
    /\ ret' = GetLinePositionInDiff(file_exists, returncode, raises, stdout, line_number)
    /\ pc' = "diff_done"
    /\ UNCHANGED <<file_exists, returncode, raises, stdout, line_number>>
    /\ UNCHANGED <<textVars, payloadVars, mainVars>>

NextDiff == CallGetLinePosition

SpecDiff == InitDiff /\ [][NextDiff]_vars

----------------------------------------------------------------------------
\* Inputs of extract_line_comments: review lines written from a list marker,
\* a path, a line number and a description in one of the four formats
\* (fmt 0: a line of plain text, held in desc).

DigitChar(d) == <<"0", "1", "2", "3", "4", "5", "6", "7", "8", "9">>[d + 1]

\* the decimal digits of n
RECURSIVE ToDigits(_)
ToDigits(n) ==
    IF n < 10 THEN <<DigitChar(n)>>
    ELSE ToDigits(n \div 10) \o <<DigitChar(n % 10)>>

RenderLine(part) ==
    CASE part.fmt = 0 -> part.desc
      [] part.fmt = 1 ->
           part.marker \o part.token \o <<":">> \o ToDigits(part.number)
               \o <<":", " ">> \o part.desc
      [] part.fmt = 2 ->
           part.marker \o part.token \o <<" ", "l", "i", "n", "e", " ">>
               \o ToDigits(part.number) \o <<":", " ">> \o part.desc
      [] part.fmt = 3 ->
           part.marker \o part.token \o <<":", " ", "L", "i", "n", "e", " ">>
               \o ToDigits(part.number) \o <<":", " ">> \o part.desc
      [] part.fmt = 4 ->
           <<"*", "*">> \o part.token \o <<":">> \o ToDigits(part.number)
               \o <<"*", "*", ":", " ">> \o part.desc

RenderReview(parts) == JoinLines([i \in 1..Len(parts) |-> RenderLine(parts[i])])

PathX == <<"x", ".", "p", "y">>
PathY == <<"y", ".", "p", "y">>

ListMarkers == {<<>>, <<"-", " ">>, <<"1", ".", " ">>, <<" ", "*", " ">>}

PathTokens ==
    {PathX,
     <<".", "/">> \o PathX,
     <<"a", "/">> \o PathX,
     <<"b", "/">> \o PathX,
     <<"s", "/">> \o PathX,
     <<"a", "\\">> \o PathX,
     <<".", "/", "a", "/">> \o PathX,
     <<"a", "/", "b", "/">> \o PathX,
     <<"a", "/", ".", "/">> \o PathX}

Descr == <<"d", " ", "e">>

CommentParts ==
    [fmt : {1, 2, 3}, marker : ListMarkers, token : PathTokens,
     number : 0..MaxLineNo, desc : {Descr}]
    \cup [fmt : {4}, marker : {<<>>}, token : PathTokens,
          number : 0..MaxLineNo, desc : {Descr}]

Plain(text) == [fmt |-> 0, marker |-> <<>>, token |-> <<>>, number |-> 0,
                desc |-> text]
Part(f, m, t, n) == [fmt |-> f, marker |-> m, token |-> t, number |-> n,
                     desc |-> Descr]

\* the lines of the longer review texts
SampleParts ==
    {Part(1, <<>>, PathX, 1),
     Part(2, <<"-", " ">>, PathX, 2),
     Part(4, <<>>, PathY, 1),
     Part(1, <<>>, <<"a", "/">> \o PathX, 9),
     Plain(<<"o", "k">>),
     Plain(<<" ">>)}

InitExtract ==
    /\ pc = "extract_start"
    /\ IdleDiff /\ IdlePayload /\ IdleMain
    /\ review_exists = TRUE
    /\ \/ \E part \in CommentParts : review_parts = <<part>>
       \/ review_parts \in BoundedSeq(SampleParts, MaxReviewLines)
    /\ review_content = RenderReview(review_parts)
    /\ chunk_size = DefaultChunkSize
    /\ line_comments = <<>>
    /\ fallback_comments = <<>>

\* one call of extract_line_comments
CallExtract ==
    /\ pc = "extract_start"
    /\ line_comments' = ExtractLineComments(review_content)
    /\ pc' = "extract_done"
    /\ UNCHANGED <<review_exists, review_parts, review_content, chunk_size,
                   fallback_comments>>
    /\ UNCHANGED <<diffVars, payloadVars, mainVars>>

NextExtract == CallExtract

SpecExtract == InitExtract /\ [][NextExtract]_vars

----------------------------------------------------------------------------
\* Inputs of create_fallback_comments: short texts and small chunk sizes.

ChunkAlphabet == {"a", "b", " ", NL}

InitChunk ==
    /\ pc = "chunk_start"
    /\ IdleDiff /\ IdlePayload /\ IdleMain
    /\ review_exists = TRUE
    /\ review_parts = <<>>
    /\ review_content \in BoundedSeq(ChunkAlphabet, MaxTextLen)
    /\ chunk_size \in 1..MaxChunkSize
    /\ line_comments = <<>>
    /\ fallback_comments = <<>>

\* one call of create_fallback_comments
CallFallback ==
    /\ pc = "chunk_start"
    /\ fallback_comments' = CreateFallbackComments(review_content, chunk_size)
    /\ pc' = "chunk_done"
    /\ UNCHANGED <<review_exists, review_parts, review_content, chunk_size,
                   line_comments>>
    /\ UNCHANGED <<diffVars, payloadVars, mainVars>>

NextChunk == CallFallback

SpecChunk == InitChunk /\ [][NextChunk]_vars

----------------------------------------------------------------------------
\* create_review_payload, one action per step, and its inputs.

\* a file git diff reports two added lines for: lines 1 and 2 of the new file
ChangedFile == [file_exists |-> TRUE, returncode |-> 0, raises |-> FALSE,
                stdout |-> GitOutput(<<HdrA, AddLine, AddLine>>)]
MissingFile == [file_exists |-> FALSE, returncode |-> 0, raises |-> FALSE,
                stdout |-> <<>>]
FailedDiff == [file_exists |-> TRUE, returncode |-> 1, raises |-> FALSE,
               stdout |-> <<>>]

RepoWorlds == [{PathX, PathY} -> {ChangedFile, MissingFile, FailedDiff}]

\* the working trees of the runs of main
MainWorlds == [{PathX} -> {ChangedFile, MissingFile}]

\* the lines of the review texts of the runs of main
MainParts ==
    {Part(1, <<>>, PathX, 1),
     Part(2, <<"-", " ">>, PathX, 2),
     Part(1, <<>>, <<"a", "/">> \o PathX, 9),
     Plain(<<"o", "k">>),
     Plain(<<" ">>)}

CommitShas == {PyNone, "", "abc123"}

RawComment(p, n, b) == [path |-> p, line |-> n, side |-> "RIGHT", body |-> b]

\* comments a caller can pass, an empty path and a blank body included
CommentCatalogue ==
    {RawComment(PathX, 1, ReviewMarker \o Descr),
     RawComment(PathX, 2, <<"e">>),
     RawComment(PathY, 1, ReviewMarker \o Descr),
     RawComment(PathX, 9, ReviewMarker \o Descr),
     RawComment(<<>>, 1, ReviewMarker \o Descr),
     RawComment(PathY, 2, <<" ", " ">>)}

InitPayload ==
    /\ pc = "payload_start"
    /\ IdleDiff /\ IdleText /\ IdleMain
    /\ repo_files \in RepoWorlds
    /\ comments \in BoundedSeq(CommentCatalogue, MaxComments)
    /\ commit_sha \in CommitShas
    /\ ci = 1 /\ valid_comments = <<>> /\ skipped_comments = <<>>
    /\ lookups = 0
    /\ payload = EmptyPayload

\* faulty variant of PayloadGuard: the commit reference is not checked
PayloadGuardNoShaCheck ==
    /\ pc = "payload_start"
    /\ IF comments = <<>>
       THEN /\ payload' = EmptyPayload
            /\ pc' = "payload_done"
       ELSE /\ payload' = payload
            /\ pc' = "payload_loop"
    /\ ci' = 1
    /\ valid_comments' = <<>>
    /\ skipped_comments' = <<>>
    /\ UNCHANGED <<repo_files, comments, commit_sha, lookups>>
    /\ UNCHANGED <<diffVars, textVars, mainVars>>

\* the two guards at the top of create_review_payload
PayloadGuard ==
    /\ pc = "payload_start"
    /\ IF comments = <<>> \/ Falsy(commit_sha)
       THEN /\ payload' = EmptyPayload
            /\ pc' = "payload_done"
       ELSE /\ payload' = payload
            /\ pc' = "payload_loop"
    /\ ci' = 1
    /\ valid_comments' = <<>>
    /\ skipped_comments' = <<>>
    /\ UNCHANGED <<repo_files, comments, commit_sha, lookups>>
    /\ UNCHANGED <<diffVars, textVars, mainVars>>

\* one iteration of the for loop over comments
PayloadLoop ==
    /\ pc = "payload_loop"
    /\ ci <= Len(comments)
    /\ LET comment == comments[ci]
           position == LookupIn(repo_files, comment.path, comment.line)
       IN IF position.found /\ position.position > 0
          THEN /\ valid_comments' =
                      Append(valid_comments, ValidComment(comment, position.position))
               /\ skipped_comments' = skipped_comments
          ELSE /\ skipped_comments' = Append(skipped_comments, comment)
               /\ valid_comments' = valid_comments
    /\ lookups' = lookups + 1
    /\ ci' = ci + 1
    /\ UNCHANGED <<repo_files, comments, commit_sha, payload, pc>>
    /\ UNCHANGED <<diffVars, textVars, mainVars>>

\* after the loop: validation and the returned payload
PayloadBuild ==
    /\ pc = "payload_loop"
    /\ ci > Len(comments)
    /\ payload' = IF valid_comments # <<>>
                  THEN BuildPayload(valid_comments, commit_sha)
                  ELSE EmptyPayload
    /\ pc' = "payload_done"
    /\ UNCHANGED <<repo_files, comments, commit_sha, ci, valid_comments,
                   skipped_comments, lookups>>
    /\ UNCHANGED <<diffVars, textVars, mainVars>>

NextPayload == PayloadGuard \/ PayloadLoop \/ PayloadBuild

SpecPayload == InitPayload /\ [][NextPayload]_vars

----------------------------------------------------------------------------
\* main

InitMain ==
    /\ pc = "main_start"
    /\ IdleDiff /\ IdleMain
    /\ \/ /\ review_exists = TRUE
          /\ review_parts \in BoundedSeq(MainParts, MaxReviewLines)
       \/ /\ review_exists = FALSE
          /\ review_parts = <<>>
    /\ review_content = RenderReview(review_parts)
    /\ chunk_size = DefaultChunkSize
    /\ line_comments = <<>>
    /\ fallback_comments = <<>>
    /\ repo_files \in MainWorlds
    /\ commit_sha \in {PyNone, "abc123"}
    /\ comments = <<>>
    /\ ci = 1 /\ valid_comments = <<>> /\ skipped_comments = <<>>
    /\ lookups = 0
    /\ payload = EmptyPayload

\* main up to the branch on line_comments: the two early returns, then
\* extract_line_comments
MainRead ==
    /\ pc = "main_start"
    /\ IF ~review_exists \/ Strip(review_content) = <<>>
       THEN /\ pc' = "exit"
            /\ UNCHANGED <<line_comments, comments>>
       ELSE /\ line_comments' = ExtractLineComments(review_content)
            /\ IF line_comments' # <<>>
               THEN comments' = line_comments' /\ pc' = "payload_start"
               ELSE comments' = comments /\ pc' = "main_fallback"
    /\ UNCHANGED <<review_exists, review_parts, review_content, chunk_size,
                   fallback_comments>>
    /\ UNCHANGED <<repo_files, commit_sha, ci, valid_comments, skipped_comments,
                   lookups, payload>>
    /\ UNCHANGED <<diffVars, mainVars>>

\* the payload returned by create_review_payload is written to
\* review_payload.json
MainWritePayload ==
    /\ pc = "payload_done"
    /\ written_payload' = <<payload>>
    /\ pc' = "exit"
    /\ UNCHANGED <<written_fallback, total_chunks>>
    /\ UNCHANGED <<diffVars, textVars, payloadVars>>

\* the else branch: the fallback comments and the marker file are written
MainFallback ==
    /\ pc = "main_fallback"
    /\ fallback_comments' = CreateFallbackComments(review_content, DefaultChunkSize)
    /\ written_fallback' = fallback_comments'
    /\ total_chunks' = <<Len(fallback_comments')>>
    /\ pc' = "exit"
    /\ UNCHANGED <<review_exists, review_parts, review_content, chunk_size,
                   line_comments, written_payload>>
    /\ UNCHANGED <<diffVars, payloadVars>>

NextMain ==
    \/ MainRead
    \/ PayloadGuard
    \/ PayloadLoop
    \/ PayloadBuild
    \/ MainWritePayload
    \/ MainFallback

SpecMain == InitMain /\ [][NextMain]_vars

----------------------------------------------------------------------------
\* What the claims about the diff position speak of, stated on the diff text.

DiffLines == Split(stdout)

IsHeader(l) == StartsWith(l, <<"@", "@">>)
IsHunkStart(l) == IsHeader(l) /\ \E i \in 1..(Len(l) - 1) : l[i] = "+" /\ IsDigit(l[i + 1])
IsAddOrCtx(l) == ~IsHeader(l) /\ l # <<>> /\ l[1] \in {"+", " "}
IsRemoved(l) == ~IsHeader(l) /\ l # <<>> /\ l[1] = "-"

InsideHunk(ls, i) == \E j \in 1..(i - 1) : IsHunkStart(ls[j])

\* the hunk header that governs line i
LastHunkStart(ls, i) ==
    CHOOSE j \in 1..(i - 1) :
        IsHunkStart(ls[j]) /\ \A k \in (j + 1)..(i - 1) : ~IsHunkStart(ls[k])

\* the start line the header declares for the new file
DeclaredStart(l) ==
    LET p == CHOOSE i \in 1..(Len(l) - 1) :
                 /\ l[i] = "+" /\ IsDigit(l[i + 1])
                 /\ \A k \in 1..(i - 1) : ~(l[k] = "+" /\ IsDigit(l[k + 1]))
        e == CHOOSE j \in (p + 1)..Len(l) :
                 /\ \A k \in (p + 1)..j : IsDigit(l[k])
                 /\ (j = Len(l) \/ ~IsDigit(l[j + 1]))
    IN ParseInt(SubSeq(l, p + 1, e))

\* the new-file line number of an added or context line i inside a hunk
NewFileLine(ls, i) ==
    LET h == LastHunkStart(ls, i) IN
    DeclaredStart(ls[h]) - 1
        + Cardinality({k \in (h + 1)..i : IsAddOrCtx(ls[k])})

Eligible(ls, i) ==
    InsideHunk(ls, i) /\ IsAddOrCtx(ls[i]) /\ NewFileLine(ls, i) = line_number

FirstEligible(ls, i) == Eligible(ls, i) /\ \A j \in 1..(i - 1) : ~Eligible(ls, j)

HeadersUpTo(ls, i) == Cardinality({k \in 1..i : IsHeader(ls[k])})
AddCtxUpTo(ls, i) == Cardinality({k \in 1..i : InsideHunk(ls, k) /\ IsAddOrCtx(ls[k])})
RemovedUpTo(ls, i) == Cardinality({k \in 1..i : InsideHunk(ls, k) /\ IsRemoved(ls[k])})

GuardsPass == file_exists /\ ~raises /\ returncode = 0 /\ Strip(stdout) # <<>>

\* C2: a returned position is that of the first added or context line inside
\* a hunk whose new-file line number is the target, counting 1 per hunk header
\* and 1 per added, context and removed line inside a hunk up to that line.
C2_PositionOfFirstMatch ==
    (pc = "diff_done" /\ ret.found) =>
        LET ls == DiffLines IN
        \E i \in 1..Len(ls) :
            /\ FirstEligible(ls, i)
            /\ ret.position = Cardinality({k \in 1..i :
                   \/ IsHeader(ls[k])
                   \/ /\ InsideHunk(ls, k)
                      /\ (IsAddOrCtx(ls[k]) \/ IsRemoved(ls[k]))})

\* C2 witness: the worked example, target = the 2nd added line, position 5
C2_Witness ==
    /\ pc = "diff_done"
    /\ stdout = GitOutput(ExampleDiff)
    /\ line_number = 13
    /\ ret = Found(5)

\* C3 as stated: the returned position counts hunk headers, context lines and
\* added lines up to the target, and no removed line.
C3_RemovedNotCounted ==
    (pc = "diff_done" /\ ret.found) =>
        LET ls == DiffLines IN
        \A i \in 1..Len(ls) :
            FirstEligible(ls, i) =>
                ret.position = HeadersUpTo(ls, i) + AddCtxUpTo(ls, i)

\* C3 amended: the returned position counts hunk headers, context lines, added
\* lines and also the removed lines inside a hunk up to the target.
C3_RemovedCounted ==
    (pc = "diff_done" /\ ret.found) =>
        LET ls == DiffLines IN
        \A i \in 1..Len(ls) :
            FirstEligible(ls, i) =>
                ret.position = HeadersUpTo(ls, i) + AddCtxUpTo(ls, i)
                                   + RemovedUpTo(ls, i)

\* C3 witness: a position returned for a target that follows a removed line
C3_Witness ==
    /\ pc = "diff_done"
    /\ ret.found
    /\ LET ls == DiffLines IN
       \E i \in 1..Len(ls) : FirstEligible(ls, i) /\ RemovedUpTo(ls, i) > 0

\* C7: when no added or context line inside a hunk has the target as its
\* new-file line number, or the file is missing, or the diff failed or is
\* empty, the function returns not-found (and the caller sees no exception).
C7_NotFoundWhenNoMatch ==
    (/\ pc = "diff_done"
     /\ \/ ~GuardsPass
        \/ LET ls == DiffLines IN \A i \in 1..Len(ls) : ~Eligible(ls, i))
        => ret = NotFound

\* C7 witness: a diff with a hunk in which the target does not occur, the
\* target coinciding only with a line before the first hunk header
C7_Witness ==
    /\ pc = "diff_done"
    /\ GuardsPass
    /\ LET ls == DiffLines IN
       /\ \E i \in 1..Len(ls) : IsHunkStart(ls[i])
       /\ \E i \in 1..Len(ls) :
              /\ ~InsideHunk(ls, i) /\ IsAddOrCtx(ls[i])
              /\ Cardinality({k \in 1..i : IsAddOrCtx(ls[k])}) = line_number
       /\ \A i \in 1..Len(ls) : ~Eligible(ls, i)
    /\ ret = NotFound

----------------------------------------------------------------------------
\* What the claims about the extracted comments speak of.

ReviewLines == Split(review_content)

\* the k-th smallest member of a set of indices
KthSmallest(S, k) == CHOOSE i \in S : Cardinality({j \in S : j <= i}) = k

\* the lines that were written as comments in one of the four formats
WrittenAsComment == {i \in 1..Len(review_parts) : review_parts[i].fmt > 0}

\* the path token the pattern accepted in line i
AcceptedToken(i) == MatchLine(Strip(ReviewLines[i])).file_path

Slashed(t) == [i \in 1..Len(t) |-> IF t[i] = "\\" THEN "/" ELSE t[i]]

HasDiffPrefix(p) ==
    \/ StartsWith(p, <<".", "/">>)
    \/ StartsWith(p, <<"a", "/">>)
    \/ StartsWith(p, <<"b", "/">>)

\* how many of ./, a/ and b/ lead the path, one behind the other
RECURSIVE LeadingPrefixes(_)
LeadingPrefixes(p) ==
    IF HasDiffPrefix(p) THEN 1 + LeadingPrefixes(SubSeq(p, 3, Len(p))) ELSE 0

\* at most one prefix, or a ./ followed by a single a/ or b/
SinglyPrefixed(t) ==
    LET u == Slashed(t) IN
    \/ LeadingPrefixes(u) <= 1
    \/ /\ LeadingPrefixes(u) = 2
       /\ StartsWith(u, <<".", "/">>)
       /\ ~StartsWith(SubSeq(u, 3, Len(u)), <<".", "/">>)

\* C4 as stated: every record has the line number written in its line and a
\* path that starts with none of ./, a/ and b/, whatever the accepted token.
C4_NoPrefixLeft ==
    pc = "extract_done" =>
        /\ Len(line_comments) = Cardinality(WrittenAsComment)
        /\ \A k \in 1..Len(line_comments) :
               /\ line_comments[k].line
                      = review_parts[KthSmallest(WrittenAsComment, k)].number
               /\ ~HasDiffPrefix(line_comments[k].path)

\* C4 amended: every record has the line number written in its line, and its
\* path starts with none of ./, a/ and b/ when the accepted token carries at
\* most one such prefix, or a ./ followed by a single a/ or b/.
C4_NoPrefixLeftOfSinglyPrefixed ==
    pc = "extract_done" =>
        /\ Len(line_comments) = Cardinality(WrittenAsComment)
        /\ \A k \in 1..Len(line_comments) :
               /\ line_comments[k].line
                      = review_parts[KthSmallest(WrittenAsComment, k)].number
               /\ SinglyPrefixed(AcceptedToken(KthSmallest(WrittenAsComment, k)))
                      => ~HasDiffPrefix(line_comments[k].path)

\* C4 witness: a record from a line with a two-digit number whose accepted
\* token carries a prefix
C4_Witness ==
    /\ pc = "extract_done"
    /\ \E k \in 1..Len(line_comments) :
           LET t == AcceptedToken(KthSmallest(WrittenAsComment, k)) IN
           /\ HasDiffPrefix(Slashed(t))
           /\ SinglyPrefixed(t)
           /\ line_comments[k].line >= 10

----------------------------------------------------------------------------
\* What the claims about the fallback chunks speak of.

Chunks == [i \in 1..Len(fallback_comments) |-> fallback_comments[i].body.chunk]

NonBlank(l) == Strip(l) # <<>>

\* the non-blank lines of a text, each without its surrounding whitespace
TrimmedLines(text) ==
    LET ls == SelectSeq(Split(text), NonBlank) IN
    [i \in 1..Len(ls) |-> Strip(ls[i])]

\* C5: every chunk has at most chunk_size characters, except a chunk that is
\* one single input line longer than chunk_size.
C5_ChunksWithinSize ==
    pc = "chunk_done" =>
        \A i \in 1..Len(Chunks) :
            \/ Len(Chunks[i]) <= chunk_size
            \/ \E j \in 1..Len(ReviewLines) :
                   /\ Len(ReviewLines[j]) > chunk_size
                   /\ Chunks[i] = Strip(ReviewLines[j])

\* C6 as stated, for the texts that are not blank and have no whitespace at
\* either end: the chunks joined with newlines have the lines of the original
\* text, in order, none lost, altered, split or duplicated.
C6_JoinReproducesLines ==
    (pc = "chunk_done" /\ review_content # <<>> /\ Strip(review_content) = review_content) =>
        Split(JoinLines(Chunks)) = ReviewLines

\* C6 amended: the chunks joined with newlines have the non-blank lines of the
\* original text, in order, none lost, split or duplicated, each unaltered
\* but for whitespace at its ends.
C6_JoinReproducesTrimmedLines ==
    pc = "chunk_done" =>
        TrimmedLines(JoinLines(Chunks)) = TrimmedLines(review_content)

\* C6 witness: a text cut into several chunks whose join differs from it
C6_Witness ==
    /\ pc = "chunk_done"
    /\ Len(Chunks) >= 2
    /\ Split(JoinLines(Chunks)) # ReviewLines

----------------------------------------------------------------------------
\* What the claims about the review payload speak of.

Mappable(comment) == LookupIn(repo_files, comment.path, comment.line).found

\* C8: a non-empty payload has all its keys and at least one comment, and
\* every comment of it has position >= 1, a non-empty path and a non-blank body.
C8_PayloadWellFormed ==
    payload.keys # {} =>
        /\ payload.keys = {"body", "event", "comments", "commit_id"}
        /\ Len(payload.comments) >= 1
        /\ \A k \in 1..Len(payload.comments) :
               /\ payload.comments[k].position >= 1
               /\ payload.comments[k].path # <<>>
               /\ Strip(payload.comments[k].body) # <<>>

\* C8 witness: a payload returned although a comment with an empty path was
\* among the input
C8_Witness ==
    /\ pc = "payload_done"
    /\ payload.keys # {}
    /\ \E k \in 1..Len(comments) : comments[k].path = <<>>

\* C9: the result is empty when the comment list is empty, the commit
\* reference is empty or absent, or no comment maps to a position; in the
\* first two cases no position lookup was made.
C9_EmptyResult ==
    pc = "payload_done" =>
        /\ (\/ comments = <<>>
            \/ Falsy(commit_sha)
            \/ \A k \in 1..Len(comments) : ~Mappable(comments[k]))
               => payload = EmptyPayload
        /\ (comments = <<>> \/ Falsy(commit_sha)) => lookups = 0

\* C9 witness: comments that would map, returned empty for want of a commit
\* reference, no lookup made
C9_Witness ==
    /\ pc = "payload_done"
    /\ Falsy(commit_sha)
    /\ \E k \in 1..Len(comments) : Mappable(comments[k])
    /\ payload = EmptyPayload
    /\ lookups = 0

----------------------------------------------------------------------------
\* What the claims about a run of main speak of.

NonBlankReview == review_exists /\ Strip(review_content) # <<>>

\* the lines extract_line_comments has a record for
MatchingLines ==
    {i \in 1..Len(ReviewLines) :
        NonBlank(ReviewLines[i]) /\ MatchLine(Strip(ReviewLines[i])).matched}

MappedComments == {k \in 1..Len(line_comments) : Mappable(line_comments[k])}

\* C1: a run on a non-blank review text ends with exactly one payload that
\* has at least one positioned comment and no fallback comment, or with one
\* or more fallback comments and no payload.
C1_PayloadOrFallback ==
    (pc = "exit" /\ NonBlankReview) =>
        \/ /\ Len(written_payload) = 1
           /\ written_payload[1].keys # {}
           /\ Len(written_payload[1].comments) >= 1
           /\ written_fallback = <<>>
        \/ /\ written_payload = <<>>
           /\ Len(written_fallback) >= 1

\* C10: the extracted comments are the records of the matching non-blank
\* lines, one per line and in the order of the lines, and the comments of a
\* written payload are the extracted comments that map to a position, in the
\* same order.
C10_EncounterOrder ==
    (pc = "exit" /\ NonBlankReview) =>
        /\ Len(line_comments) = Cardinality(MatchingLines)
        /\ Len(line_comments)
               <= Cardinality({i \in 1..Len(ReviewLines) : NonBlank(ReviewLines[i])})
        /\ \A k \in 1..Len(line_comments) :
               line_comments[k]
                   = CommentOf(MatchLine(Strip(ReviewLines[KthSmallest(MatchingLines, k)])))
        /\ \A w \in 1..Len(written_payload) :
               written_payload[w].keys # {} =>
                   /\ Len(written_payload[w].comments) = Cardinality(MappedComments)
                   /\ \A m \in 1..Len(written_payload[w].comments) :
                          LET c == line_comments[KthSmallest(MappedComments, m)] IN
                          written_payload[w].comments[m]
                              = [path |-> c.path,
                                 position |-> LookupIn(repo_files, c.path, c.line).position,
                                 body |-> c.body]

\* C10 witness: a payload with two comments for the same path and line, a
\* comment between them having been skipped
C10_Witness ==
    /\ pc = "exit"
    /\ Len(written_payload) = 1
    /\ written_payload[1].keys # {}
    /\ \E j, k \in 1..Len(line_comments) :
           /\ j + 1 < k
           /\ line_comments[j].path = line_comments[k].path
           /\ line_comments[j].line = line_comments[k].line
           /\ j \in MappedComments
           /\ (j + 1) \notin MappedComments

=============================================================================
